---- MODULE Spec2Model ----
(***************************************************************************)
(* A model of kalite_gtk/cli.py: the configuration resolution that runs at *)
(* module load, the command builders, the blocking and streaming process   *)
(* executors, the status URL scanner and the settings persistence.         *)
(*                                                                         *)
(* Python values are tagged records, so that None, integers, text and      *)
(* bytes never compare equal by accident:                                  *)
(*   [none |-> TRUE]   None                                                *)
(*   [int  |-> n]      an integer                                          *)
(*   [str  |-> s]      a text string                                       *)
(*   [bytes |-> s]     a byte string read from a pipe                      *)
(***************************************************************************)
EXTENDS Integers, Sequences, FiniteSets, TLC

VARIABLES
    \* ---- the streaming executor (stream_kalite_command) and its child
    childProg,      \* what the child still has to do: a sequence of ChildOps
    childState,     \* "unborn" | "running" | "exited"
    exitStatus,     \* the code the child exits with (the kernel's record)
    stdoutPipe,     \* lines written to stdout and not yet read
    stderrPipe,     \* chunks written to stderr and not yet read
    stdoutOpen,     \* the child still holds the write end of stdout
    stderrOpen,     \* the child still holds the write end of stderr
    genPc,          \* the generator's position
    captured,       \* what p.stderr.read() has read so far
    returncode,     \* the Popen object's returncode attribute
    received,       \* the tuples the consumer has been handed, in order
    written,        \* history: the lines and chunks the child has written
    \* ---- the status URL scanner (get_urls_from_status)
    msg,            \* the status text, a sequence of MsgUnits
    return_code,    \* the exit code handed in with it
    urlRest,        \* the tokens of msg.split() the loop has not visited
    urlOut,         \* the matches yielded so far, in order
    urlPc,          \* "created" | "suspended" | "exhausted"
    \* ---- the files the module reads and writes, and the PATH lookup
    usernameFile,   \* /etc/ka-lite/username
    optionsFile,    \* /etc/ka-lite/server_options
    homeFile,       \* /etc/ka-lite/home
    settingsFile,   \* ~/.kalite/ka-lite-gtk.json
    kalitePath,     \* what find_executable('kalite') returns
    \* ---- the module's globals
    pc,             \* how far the module-level code has run
    debian_username,
    DEFAULT_USER,
    DEFAULT_PORT,
    DEFAULT_HOME,
    settings,
    log,            \* the logger.error records of the module-level code
    lastCall,       \* the last function called by the front-end, and what it did
    roundTrip       \* history: the settings save_settings last wrote

streamVars == <<childProg, childState, exitStatus, stdoutPipe, stderrPipe,
                stdoutOpen, stderrOpen, genPc, captured, returncode,
                received, written>>

urlVars == <<msg, return_code, urlRest, urlOut, urlPc>>

fileVars == <<usernameFile, optionsFile, homeFile, settingsFile, kalitePath>>

moduleVars == <<pc, debian_username, DEFAULT_USER, DEFAULT_PORT, DEFAULT_HOME,
                settings, log, lastCall, roundTrip>>

cfgVars == <<fileVars, moduleVars>>

nonStreamVars == <<urlVars, cfgVars>>

nonUrlVars == <<streamVars, cfgVars>>

nonCfgVars == <<streamVars, urlVars>>

vars == <<streamVars, urlVars, cfgVars>>

-----------------------------------------------------------------------------
(* Python values *)

None == [none |-> TRUE]

PyStr(s) == [str |-> s]

PyInt(n) == [int |-> n]

PyBytes(s) == [bytes |-> s]

\* bytes.decode(): the text of a byte string
decode(b) == PyStr(b.bytes)

-----------------------------------------------------------------------------
(* Bounds of the streaming model *)

\* the longest child program (writes before exit)
MaxProg == 4

\* the capacity of a pipe, in lines (stdout) or chunks (stderr)
PipeCap == 2

-----------------------------------------------------------------------------
(* The child process: it writes lines to stdout and chunks to stderr in    *)
(* program order, may close stdout early, and exits. A write to a full     *)
(* pipe blocks the child.                                                  *)

Lines == {"a\n", "\n"}

ChildOps == {"out_a", "out_nl", "err", "close_out"}

RECURSIVE SeqsUpTo(_, _)
SeqsUpTo(S, n) ==
    IF n = 0 THEN {<<>>}
    ELSE LET shorter == SeqsUpTo(S, n - 1)
         IN  shorter \cup {Append(s, x) : s \in {t \in shorter : Len(t) = n - 1}, x \in S}

\* a child never writes to the stdout it has closed
WellFormed(prog) ==
    \A i \in 1..Len(prog) :
        prog[i] = "close_out" =>
            \A j \in (i + 1)..Len(prog) : prog[j] \notin {"out_a", "out_nl", "close_out"}

Programs == {p \in SeqsUpTo(ChildOps, MaxProg) : WellFormed(p)}

LineOf(op) == IF op = "out_a" THEN "a\n" ELSE "\n"

ExitCodes == {0, 1}

\* the streaming executor before any command is streamed
IdleStream ==
    /\ childProg = <<>>
    /\ exitStatus = 0
    /\ childState = "unborn"
    /\ stdoutPipe = <<>>
    /\ stderrPipe = <<>>
    /\ stdoutOpen = TRUE
    /\ stderrOpen = TRUE
    /\ genPc = "idle"
    /\ captured = PyBytes("")
    /\ returncode = None
    /\ received = <<>>
    /\ written = [out |-> <<>>, err |-> ""]

\* the URL scanner before any status text is scanned
IdleUrl ==
    /\ msg = <<>>
    /\ return_code = 0
    /\ urlRest = <<>>
    /\ urlOut = <<>>
    /\ urlPc = "idle"

\* a file that does not exist
Absent == [absent |-> TRUE]

\* a settings mapping that has not been built
NoSettings == [k \in {} |-> None]

NoCall == [op |-> "none"]

NoRoundTrip == [phase |-> "none"]

\* the module before it is loaded, in a system without any of its files
IdleCfg ==
    /\ usernameFile = Absent
    /\ optionsFile = Absent
    /\ homeFile = Absent
    /\ settingsFile = Absent
    /\ kalitePath = None
    /\ pc = "idle"
    /\ debian_username = None
    /\ DEFAULT_USER = None
    /\ DEFAULT_PORT = None
    /\ DEFAULT_HOME = None
    /\ settings = NoSettings
    /\ log = <<>>
    /\ lastCall = NoCall
    /\ roundTrip = NoRoundTrip

InitStream ==
    /\ IdleUrl
    /\ IdleCfg
    /\ childProg \in Programs
    /\ exitStatus \in ExitCodes
    /\ childState = "unborn"
    /\ stdoutPipe = <<>>
    /\ stderrPipe = <<>>
    /\ stdoutOpen = TRUE
    /\ stderrOpen = TRUE
    /\ genPc = "created"
    /\ captured = PyBytes("")
    /\ returncode = None
    /\ received = <<>>
    /\ written = [out |-> <<>>, err |-> ""]

ChildWriteOut ==
    /\ childState = "running"
    /\ childProg # <<>>
    /\ Head(childProg) \in {"out_a", "out_nl"}
    /\ Len(stdoutPipe) < PipeCap
    /\ stdoutPipe' = Append(stdoutPipe, PyBytes(LineOf(Head(childProg))))
    /\ written' = [written EXCEPT !.out = Append(@, LineOf(Head(childProg)))]
    /\ childProg' = Tail(childProg)
    /\ UNCHANGED <<nonStreamVars, childState, exitStatus, stderrPipe, stdoutOpen, stderrOpen,
                   genPc, captured, returncode, received>>

ChildWriteErr ==
    /\ childState = "running"
    /\ childProg # <<>>
    /\ Head(childProg) = "err"
    /\ Len(stderrPipe) < PipeCap
    /\ stderrPipe' = Append(stderrPipe, PyBytes("e"))
    /\ written' = [written EXCEPT !.err = @ \o "e"]
    /\ childProg' = Tail(childProg)
    /\ UNCHANGED <<nonStreamVars, childState, exitStatus, stdoutPipe, stdoutOpen, stderrOpen,
                   genPc, captured, returncode, received>>

ChildCloseOut ==
    /\ childState = "running"
    /\ childProg # <<>>
    /\ Head(childProg) = "close_out"
    /\ stdoutOpen' = FALSE
    /\ childProg' = Tail(childProg)
    /\ UNCHANGED <<nonStreamVars, childState, exitStatus, stdoutPipe, stderrPipe, stderrOpen,
                   genPc, captured, returncode, received, written>>

\* exit closes every descriptor the child still holds
ChildExit ==
    /\ childState = "running"
    /\ childProg = <<>>
    /\ childState' = "exited"
    /\ stdoutOpen' = FALSE
    /\ stderrOpen' = FALSE
    /\ UNCHANGED <<nonStreamVars, childProg, exitStatus, stdoutPipe, stderrPipe,
                   genPc, captured, returncode, received, written>>

-----------------------------------------------------------------------------
(* stream_kalite_command: a generator. Its body runs only inside the       *)
(* consumer's next() calls; genPc is where it stands:                      *)
(*   "created"       the generator object exists, its body has not run     *)
(*   "readline"      inside p.stdout.readline()                            *)
(*   "yielded_line"  suspended at the yield of a line                      *)
(*   "read_stderr"   inside p.stderr.read()                                *)
(*   "yielded_final" suspended at the final yield                          *)
(*   "exhausted"     the body has returned (StopIteration)                 *)

\* Popen.__init__ leaves returncode None; only poll(), wait() and
\* communicate() assign it, and the generator calls none of them
PopenReturncode == None

\* the first next(): Popen(...) spawns the child, then the loop calls readline
GenSpawn ==
    /\ genPc = "created"
    /\ childState = "unborn"
    /\ childState' = "running"
    /\ returncode' = PopenReturncode
    /\ genPc' = "readline"
    /\ UNCHANGED <<nonStreamVars, childProg, exitStatus, stdoutPipe, stderrPipe, stdoutOpen,
                   stderrOpen, captured, received, written>>

\* the tuple yielded for a line of stdout
LineTuple(line) == <<decode(line), None, None>>

\* readline returns a line: it is not the sentinel '', so it is yielded
GenReadLine ==
    /\ genPc = "readline"
    /\ stdoutPipe # <<>>
    /\ received' = Append(received, LineTuple(Head(stdoutPipe)))
    /\ stdoutPipe' = Tail(stdoutPipe)
    /\ genPc' = "yielded_line"
    /\ UNCHANGED <<nonStreamVars, childProg, childState, exitStatus, stderrPipe, stdoutOpen,
                   stderrOpen, captured, returncode, written>>

\* readline returns '' at end of stream, the sentinel that ends the loop
GenReadLineEOF ==
    /\ genPc = "readline"
    /\ stdoutPipe = <<>>
    /\ ~stdoutOpen
    /\ genPc' = "read_stderr"
    /\ UNCHANGED <<nonStreamVars, childProg, childState, exitStatus, stdoutPipe, stderrPipe,
                   stdoutOpen, stderrOpen, captured, returncode, received, written>>

\* p.stderr.read() takes what the pipe holds and goes on reading
GenReadStderr ==
    /\ genPc = "read_stderr"
    /\ stderrPipe # <<>>
    /\ captured' = PyBytes(captured.bytes \o Head(stderrPipe).bytes)
    /\ stderrPipe' = Tail(stderrPipe)
    /\ UNCHANGED <<nonStreamVars, childProg, childState, exitStatus, stdoutPipe, stdoutOpen,
                   stderrOpen, genPc, returncode, received, written>>

\* the final tuple
FinalTuple(err, code) == <<None, decode(err), code>>

\* p.stderr.read() returns at end of stream; the final tuple is yielded
GenReadStderrEOF ==
    /\ genPc = "read_stderr"
    /\ stderrPipe = <<>>
    /\ ~stderrOpen
    /\ received' = Append(received, FinalTuple(captured, returncode))
    /\ genPc' = "yielded_final"
    /\ UNCHANGED <<nonStreamVars, childProg, childState, exitStatus, stdoutPipe, stderrPipe,
                   stdoutOpen, stderrOpen, captured, returncode, written>>

\* the consumer asks for the next element after a line
ConsumerNext ==
    /\ genPc = "yielded_line"
    /\ genPc' = "readline"
    /\ UNCHANGED <<nonStreamVars, childProg, childState, exitStatus, stdoutPipe, stderrPipe,
                   stdoutOpen, stderrOpen, captured, returncode, received, written>>

\* the consumer asks for the next element after the final tuple
ConsumerLast ==
    /\ genPc = "yielded_final"
    /\ genPc' = "exhausted"
    /\ UNCHANGED <<nonStreamVars, childProg, childState, exitStatus, stdoutPipe, stderrPipe,
                   stdoutOpen, stderrOpen, captured, returncode, received, written>>

NextStream ==
    \/ ChildWriteOut
    \/ ChildWriteErr
    \/ ChildCloseOut
    \/ ChildExit
    \/ GenSpawn
    \/ GenReadLine
    \/ GenReadLineEOF
    \/ GenReadStderr
    \/ GenReadStderrEOF
    \/ ConsumerNext
    \/ ConsumerLast

SpecStream == InitStream /\ [][NextStream]_vars

\* the operating system schedules a runnable child, and a consumer that
\* keeps pulling resumes the generator whenever its read can return
FairSpecStream ==
    /\ SpecStream
    /\ WF_vars(ChildWriteOut)
    /\ WF_vars(ChildWriteErr)
    /\ WF_vars(ChildCloseOut)
    /\ WF_vars(ChildExit)
    /\ WF_vars(GenSpawn)
    /\ WF_vars(GenReadLine)
    /\ WF_vars(GenReadLineEOF)
    /\ WF_vars(GenReadStderr)
    /\ WF_vars(GenReadStderrEOF)
    /\ WF_vars(ConsumerNext)
    /\ WF_vars(ConsumerLast)

-----------------------------------------------------------------------------
(* Claims about the streaming executor *)

RECURSIVE LineTuples(_)
LineTuples(ls) ==
    IF ls = <<>> THEN <<>>
    ELSE <<<<PyStr(Head(ls)), None, None>>>> \o LineTuples(Tail(ls))

\* C1: once the consumer has drained the generator of a child that wrote N
\* newline-terminated lines and exited with code C, it has received the N
\* line tuples in the order written, then exactly one final tuple
\* (None, stderr, C) whose third component is the integer C, and nothing more.
C1_DrainedYieldsLinesThenExitCode ==
    genPc = "exhausted" =>
        received = LineTuples(written.out)
                       \o <<<<None, PyStr(written.err), PyInt(exitStatus)>>>>

\* C10: a consumer that keeps pulling eventually receives the final tuple,
\* whatever the child writes to stderr before it closes stdout.
C10_FinalTupleEventuallyDelivered ==
    <>(genPc \in {"yielded_final", "exhausted"})

-----------------------------------------------------------------------------
(* get_urls_from_status(msg, return_code): a generator over the matches of *)
(* r'(http://[^\s]+)' in the tokens of msg.split().                        *)
(*                                                                         *)
(* A text is a sequence of units: the literal "http://", another character *)
(* that is not whitespace, or a whitespace character. No proper prefix of  *)
(* "http://" is a suffix of it, so every text splits into such units in    *)
(* exactly one way and the pattern sees nothing the units hide.            *)

\* the longest status text, in units
MaxMsgLen == 5

HTTP == "http://"

Whitespace == {" ", "\n"}

MsgUnits == {HTTP, "a"} \cup Whitespace

Messages == SeqsUpTo(MsgUnits, MaxMsgLen)

RECURSIVE split(_)
\* str.split(): the maximal runs of units that are not whitespace, in order
split(text) ==
    IF text = <<>> THEN <<>>
    ELSE IF Head(text) \in Whitespace THEN split(Tail(text))
    ELSE LET ends == {i \in 1..Len(text) : text[i] \in Whitespace}
             stop == IF ends = {} THEN Len(text) + 1
                     ELSE CHOOSE i \in ends : \A j \in ends : i <= j
         IN  <<SubSeq(text, 1, stop - 1)>> \o split(SubSeq(text, stop, Len(text)))

NoMatch == <<>>

\* the search as re.match would do it: only at the start of the token
url_match_anchored(token) ==
    IF Len(token) >= 2 /\ token[1] = HTTP THEN token ELSE NoMatch

\* url_match.search(token).group(0), or NoMatch: the leftmost "http://" that
\* at least one character that is not whitespace follows, and all that
\* follows it up to the first whitespace
url_match_search(token) ==
    LET starts == {i \in 1..Len(token) :
                      /\ token[i] = HTTP
                      /\ i < Len(token)
                      /\ token[i + 1] \notin Whitespace}
    IN  IF starts = {} THEN NoMatch
        ELSE LET first == CHOOSE i \in starts : \A j \in starts : i <= j
                 spaces == {j \in (first + 1)..Len(token) : token[j] \in Whitespace}
                 last == IF spaces = {} THEN Len(token)
                         ELSE (CHOOSE j \in spaces : \A k \in spaces : j <= k) - 1
             IN  SubSeq(token, first, last)

RECURSIVE SkipToMatch(_)
\* the for loop from where it stands to its next yield: the tokens left
\* once the next matching token, if any, has been visited
SkipToMatch(tokens) ==
    IF tokens = <<>> THEN <<>>
    ELSE IF url_match_search(Head(tokens)) # NoMatch THEN tokens
    ELSE SkipToMatch(Tail(tokens))

InitUrls ==
    /\ IdleStream
    /\ IdleCfg
    /\ msg \in Messages
    /\ return_code \in ExitCodes
    /\ urlRest = <<>>
    /\ urlOut = <<>>
    /\ urlPc = "created"

\* the first next(): the return_code test, msg.split(), the loop to its
\* first yield or to its end
UrlFirstNext ==
    /\ urlPc = "created"
    /\ IF return_code # 0
       THEN /\ urlPc' = "exhausted"
            /\ UNCHANGED <<urlRest, urlOut>>
       ELSE LET at == SkipToMatch(split(msg))
            IN  IF at = <<>>
                THEN /\ urlPc' = "exhausted"
                     /\ urlRest' = <<>>
                     /\ UNCHANGED urlOut
                ELSE /\ urlPc' = "suspended"
                     /\ urlRest' = Tail(at)
                     /\ urlOut' = Append(urlOut, url_match_search(Head(at)))
    /\ UNCHANGED <<nonUrlVars, msg, return_code>>

\* a later next(): the loop goes on to its next yield or to its end
UrlNext ==
    /\ urlPc = "suspended"
    /\ LET at == SkipToMatch(urlRest)
       IN  IF at = <<>>
           THEN /\ urlPc' = "exhausted"
                /\ urlRest' = <<>>
                /\ UNCHANGED urlOut
           ELSE /\ urlPc' = "suspended"
                /\ urlRest' = Tail(at)
                /\ urlOut' = Append(urlOut, url_match_search(Head(at)))
    /\ UNCHANGED <<nonUrlVars, msg, return_code>>

NextUrls ==
    \/ UrlFirstNext
    \/ UrlNext

SpecUrls == InitUrls /\ [][NextUrls]_vars

-----------------------------------------------------------------------------
(* Claims about the URL scanner *)

\* the whitespace-delimited tokens of a text, as the maximal runs of units
\* that are not whitespace: the pairs <<from, to>> in order of position
TokenSpans(text) ==
    {<<i, j>> \in (1..Len(text)) \X (1..Len(text)) :
        /\ i <= j
        /\ \A k \in i..j : text[k] \notin Whitespace
        /\ (i = 1 \/ text[i - 1] \in Whitespace)
        /\ (j = Len(text) \/ text[j + 1] \in Whitespace)}

RECURSIVE InOrder(_)
\* the spans of a set, by position
InOrder(spans) ==
    IF spans = {} THEN <<>>
    ELSE LET s == CHOOSE x \in spans : \A y \in spans : x[1] <= y[1]
         IN  <<s>> \o InOrder(spans \ {s})

\* from the first "http://" of the span to the span's end
FromFirstHttp(text, s) ==
    LET i == CHOOSE k \in s[1]..s[2] :
                 text[k] = HTTP /\ \A l \in s[1]..(k - 1) : text[l] # HTTP
    IN  SubSeq(text, i, s[2])

RECURSIVE MatchesOf(_, _)
MatchesOf(text, spans) ==
    IF spans = <<>> THEN <<>>
    ELSE <<FromFirstHttp(text, Head(spans))>> \o MatchesOf(text, Tail(spans))

\* the tokens that contain "http://" anywhere
TokensWithHttp(text) ==
    {s \in TokenSpans(text) : \E k \in s[1]..s[2] : text[k] = HTTP}

\* the tokens in which a further character follows some "http://"
TokensWithHttpAndMore(text) ==
    {s \in TokenSpans(text) : \E k \in s[1]..(s[2] - 1) : text[k] = HTTP}

\* C8 (as claimed): nothing for a nonzero code; for code 0, in token order,
\* one match per whitespace-delimited token that contains "http://" (from
\* "http://" to the token's end) and nothing for the other tokens.
C8_OneMatchPerTokenWithHttp ==
    urlPc = "exhausted" =>
        urlOut = IF return_code # 0 THEN <<>>
                 ELSE MatchesOf(msg, InOrder(TokensWithHttp(msg)))

\* C8 (amended): nothing for a nonzero code; for code 0, in token order, one
\* match per token in which at least one further character follows an
\* "http://" (from the first "http://" to the token's end), and nothing for
\* the other tokens, a token that ends with its only "http://" included.
C8_OneMatchPerTokenWithHttpAndMore ==
    /\ urlPc = "exhausted" =>
           urlOut = IF return_code # 0 THEN <<>>
                    ELSE MatchesOf(msg, InOrder(TokensWithHttpAndMore(msg)))
    /\ Len(urlOut) <= Len(msg)

\* the finished scan of a text with a URL token and a token that ends in "http://"
C8_Witness ==
    /\ urlPc = "exhausted"
    /\ return_code = 0
    /\ Len(urlOut) >= 1
    /\ TokensWithHttp(msg) # TokensWithHttpAndMore(msg)

-----------------------------------------------------------------------------
(* The system the module is loaded in: user accounts, files, PATH.         *)

\* getpass.getuser(): the user who runs the front-end
getuser == "me"

\* the accounts pwd.getpwnam knows; "ghost" is a name without an account
Accounts == {"me", "kalite"}

\* pwd.getpwnam(user).pw_dir
pw_dir(user) == "/home/" \o user

\* os.path.join(a, b) for a relative b
path_join(a, b) == a \o "/" \o b

\* a text file with the list its content.split('\n') gives
TextFile(lines) == [lines |-> lines]

\* the username files: absent, empty, a valid name, a name without an
\* account, the invoking user, a blank first line before a valid name
UsernameFiles ==
    {Absent, TextFile(<<"">>), TextFile(<<"kalite", "">>), TextFile(<<"ghost", "">>),
     TextFile(<<"me", "">>), TextFile(<<"", "kalite">>)}

-----------------------------------------------------------------------------
(* The server options file. Its text is a sequence of units: the literal   *)
(* "--port", "=", a digit, or a whitespace character. No proper prefix of  *)
(* "--port" is a suffix of it, so the patterns '--port=\d+' and '--port'   *)
(* see nothing the units hide.                                             *)

\* the longest options text the module is loaded with, in OptChunks
MaxOptChunks == 5

PORT == "--port"

Digits == <<"0", "1", "2", "3", "4", "5", "6", "7", "8", "9">>

IsDigit(u) == \E d \in 1..10 : Digits[d] = u

DigitValue(u) == (CHOOSE d \in 1..10 : Digits[d] = u) - 1

\* what the options texts are put together from
OptChunks == {<<PORT, "=">>, <<PORT>>, <<"=">>, <<"7">>, <<"0">>, <<" ">>}

RECURSIVE Flatten(_)
Flatten(chunks) == IF chunks = <<>> THEN <<>> ELSE Head(chunks) \o Flatten(Tail(chunks))

OptionsTexts == {Flatten(cs) : cs \in SeqsUpTo(OptChunks, MaxOptChunks)}

RECURSIVE int(_)
\* int(digits) for a string of decimal digits
int(ds) ==
    IF ds = <<>> THEN 0
    ELSE 10 * int(SubSeq(ds, 1, Len(ds) - 1)) + DigitValue(ds[Len(ds)])

RECURSIVE format_int(_)
\* '{}'.format(n) for n >= 0
format_int(n) ==
    IF n < 10 THEN <<Digits[n + 1]>>
    ELSE Append(format_int(n \div 10), Digits[(n % 10) + 1])

\* where r'--port=\d+' matches at position i of the text, the position of
\* the last digit it takes (it takes them all); 0 where it does not match
PortMatchEnd(text, i) ==
    IF /\ i + 2 <= Len(text)
       /\ text[i] = PORT
       /\ text[i + 1] = "="
       /\ IsDigit(text[i + 2])
    THEN LET stops == {j \in (i + 2)..Len(text) : ~IsDigit(text[j])}
         IN  IF stops = {} THEN Len(text)
             ELSE (CHOOSE j \in stops : \A k \in stops : j <= k) - 1
    ELSE 0

NoPortMatch == [matched |-> FALSE]

\* the match with r'--port=(?P<port>\d)': one digit, not all of them
match_port_one_digit(text) ==
    LET at == {i \in 1..Len(text) : PortMatchEnd(text, i) # 0}
    IN  IF at = {} THEN NoPortMatch
        ELSE LET i == CHOOSE x \in at : \A y \in at : x <= y
             IN  [matched |-> TRUE, port |-> <<text[i + 2]>>]

\* re.compile(r'--port=(?P<port>\d+)').search(text): the leftmost match
match_port(text) ==
    LET at == {i \in 1..Len(text) : PortMatchEnd(text, i) # 0}
    IN  IF at = {} THEN NoPortMatch
        ELSE LET i == CHOOSE x \in at : \A y \in at : x <= y
             IN  [matched |-> TRUE, port |-> SubSeq(text, i + 2, PortMatchEnd(text, i))]

-----------------------------------------------------------------------------
(* JSON: the settings file holds unparsable text or a JSON value.          *)

JString(s) == [jstring |-> s]

JNumber(n) == [jnumber |-> n]

JNull == [jnull |-> TRUE]

JObject(members) == [jobject |-> members]

JArray(items) == [jarray |-> items]

Unparsable == [text |-> "{"]

JsonFile(value) == [json |-> value]

\* the Python value of a JSON scalar
from_json(j) ==
    IF "jstring" \in DOMAIN j THEN PyStr(j.jstring)
    ELSE IF "jnumber" \in DOMAIN j THEN PyInt(j.jnumber)
    ELSE None

\* the JSON scalar of a Python value
to_json(v) ==
    IF "str" \in DOMAIN v THEN JString(v.str)
    ELSE IF "int" \in DOMAIN v THEN JNumber(v.int)
    ELSE JNull

\* json.load: ValueError for text that is no JSON, else the Python value
json_load(file) ==
    IF "text" \in DOMAIN file THEN [raised |-> "ValueError"]
    ELSE IF "jobject" \in DOMAIN file.json
    THEN [raised |-> "no",
          value |-> [dict |-> [k \in DOMAIN file.json.jobject |->
                                   from_json(file.json.jobject[k])]]]
    ELSE [raised |-> "no", value |-> [list |-> file.json.jarray]]

\* json.dump(d, file) for a dict of scalars
json_dump(d) == JsonFile(JObject([k \in DOMAIN d |-> to_json(d[k])]))

-----------------------------------------------------------------------------
(* validators: ValidationError or the normalised value                     *)

ValidationError == [ok |-> FALSE]

Valid(v) == [ok |-> TRUE, value |-> v]

\* the username must belong to a real account
validators_username(v) ==
    IF "str" \in DOMAIN v /\ v.str \in Accounts THEN Valid(v) ELSE ValidationError

\* the port must be an integer in the TCP range
validators_port(v) ==
    IF "int" \in DOMAIN v /\ v.int >= 1 /\ v.int <= 65535 THEN Valid(v) ELSE ValidationError

\* the command must be a string that is not empty
validators_command(v) ==
    IF "str" \in DOMAIN v /\ v.str # "" THEN Valid(v) ELSE ValidationError

Validated == {"user", "port", "command"}

\* validate[k](v) if k in validate else v
validate(k, v) ==
    IF k = "user" THEN validators_username(v)
    ELSE IF k = "port" THEN validators_port(v)
    ELSE IF k = "command" THEN validators_command(v)
    ELSE Valid(v)

-----------------------------------------------------------------------------
(* The module-level code: what runs when the module is loaded.             *)

\* bool(v) for None and strings
truthy(v) == "str" \in DOMAIN v /\ v.str # ""

ErrUsername == "Non-existing username in /etc/ka-lite/username"

ErrParsing == "Parsing error in ~/.kalite/ka-lite-gtk.json"

ErrIllegal(k) == "Illegal value in ~/.kalite/ka-lite-gtk.json for " \o k

\* the keys a settings file may hold, in the order the loop is taken to
\* visit them (a dict's order does not change what the loop leaves behind)
KeyOrder == <<"user", "port", "command", "home", "content_root", "extra">>

\* the process starts: lines 26-27
StartModule ==
    /\ pc = "start"
    /\ DEFAULT_USER' = PyStr(getuser)
    /\ DEFAULT_PORT' = PyInt(8008)
    /\ pc' = "debian"
    /\ UNCHANGED <<nonCfgVars, fileVars, debian_username, DEFAULT_HOME, settings,
                   log, lastCall, roundTrip>>

\* the ka-lite Debian convention: lines 51-70
LoadDebian ==
    /\ pc = "debian"
    /\ LET first == IF usernameFile = Absent THEN None
                    ELSE PyStr(usernameFile.lines[1])
           checked == validators_username(first)
           found == IF optionsFile = Absent THEN NoPortMatch
                    ELSE match_port(optionsFile.units)
       IN  IF ~truthy(first)
           THEN /\ debian_username' = first
                /\ UNCHANGED <<DEFAULT_USER, DEFAULT_PORT, log>>
           ELSE IF checked.ok
           THEN /\ debian_username' = checked.value
                /\ DEFAULT_USER' = checked.value
                /\ DEFAULT_PORT' = IF found.matched THEN PyInt(int(found.port))
                                   ELSE DEFAULT_PORT
                /\ UNCHANGED log
           ELSE /\ debian_username' = first
                /\ log' = Append(log, ErrUsername)
                /\ UNCHANGED <<DEFAULT_USER, DEFAULT_PORT>>
    /\ pc' = "defaults"
    /\ UNCHANGED <<nonCfgVars, fileVars, DEFAULT_HOME, settings, lastCall, roundTrip>>

\* get_kalite_home(user); pwd.getpwnam raises KeyError for a name without
\* an account
get_kalite_home(user) ==
    IF "str" \in DOMAIN user /\ user.str \in Accounts
    THEN [raised |-> "no", value |-> PyStr(path_join(pw_dir(user.str), ".kalite"))]
    ELSE [raised |-> "KeyError"]

\* DEFAULT_HOME and the settings dict: lines 77-88
BuildSettings ==
    /\ pc = "defaults"
    /\ LET home == get_kalite_home(DEFAULT_USER)
       IN  IF home.raised # "no"
           THEN /\ pc' = "crashed"
                /\ UNCHANGED <<DEFAULT_HOME, settings>>
           ELSE /\ pc' = "settings"
                /\ DEFAULT_HOME' = home.value
                /\ settings' = [k \in {"user", "command", "content_root", "port", "home"} |->
                                   CASE k = "user" -> DEFAULT_USER
                                     [] k = "command" -> kalitePath
                                     [] k = "content_root" ->
                                            PyStr(path_join(home.value.str, "content"))
                                     [] k = "port" -> DEFAULT_PORT
                                     [] k = "home" -> home.value]
    /\ UNCHANGED <<nonCfgVars, fileVars, debian_username, DEFAULT_USER, DEFAULT_PORT,
                   log, lastCall, roundTrip>>

\* settings[k] = v
SetItem(d, k, v) == [x \in DOMAIN d \cup {k} |-> IF x = k THEN v ELSE d[x]]

\* del d[k] for a key the dict holds
DelItem(d, k) == [x \in DOMAIN d \ {k} |-> d[x]]

\* line 95: whether the user entry of the file is to be dropped
drops_user(name) == truthy(name)

\* line 105, were the home always derived from the user
home_never_loaded(loaded) == FALSE

\* line 105: whether the file specified the home
home_loaded(loaded) == "home" \in DOMAIN loaded

RECURSIVE ApplyLoaded(_, _, _)
\* the loop of lines 99-103 over the keys not yet visited: the settings and
\* the log it leaves
ApplyLoaded(keys, loaded, st) ==
    IF keys = <<>> THEN st
    ELSE LET k == Head(keys)
             checked == validate(k, loaded[k])
         IN  IF k \notin DOMAIN loaded THEN ApplyLoaded(Tail(keys), loaded, st)
             ELSE IF checked.ok
             THEN ApplyLoaded(Tail(keys), loaded,
                              [st EXCEPT !.settings = SetItem(@, k, checked.value)])
             ELSE ApplyLoaded(Tail(keys), loaded,
                              [st EXCEPT !.log = Append(@, ErrIllegal(k))])

\* lines 92-111 once json.load has returned a dict: the settings and log
\* left behind, or the exception that leaves the module half loaded
LoadDict(loaded0) ==
    IF drops_user(debian_username) /\ "user" \notin DOMAIN loaded0
    THEN [raised |-> "KeyError"]
    ELSE LET loaded == IF drops_user(debian_username) THEN DelItem(loaded0, "user")
                       ELSE loaded0
             st1 == ApplyLoaded(KeyOrder, loaded, [settings |-> settings, log |-> log])
             home == get_kalite_home(st1.settings["user"])
         IN  IF ~home_loaded(loaded) /\ home.raised # "no"
             THEN [raised |-> "KeyError"]
             ELSE LET s2 == IF ~home_loaded(loaded)
                            THEN SetItem(st1.settings, "home", home.value)
                            ELSE st1.settings
                      s3 == IF "content_root" \notin DOMAIN loaded
                            THEN SetItem(s2, "content_root",
                                         PyStr(path_join(s2["home"].str, "content")))
                            ELSE s2
                  IN  [raised |-> "no", settings |-> s3, log |-> st1.log]

\* the settings file: lines 92-111
LoadUserSettings ==
    /\ pc = "settings"
    /\ IF settingsFile = Absent
       THEN /\ pc' = "ready"
            /\ UNCHANGED <<settings, log>>
       ELSE LET read == json_load(settingsFile)
            IN  IF read.raised = "ValueError"
                THEN /\ pc' = "ready"
                     /\ log' = Append(log, ErrParsing)
                     /\ UNCHANGED settings
                ELSE IF "dict" \notin DOMAIN read.value
                THEN \* del, or items(), on a list: TypeError, AttributeError
                     /\ pc' = "crashed"
                     /\ UNCHANGED <<settings, log>>
                ELSE LET done == LoadDict(read.value.dict)
                     IN  IF done.raised # "no"
                         THEN /\ pc' = "crashed"
                              /\ UNCHANGED <<settings, log>>
                         ELSE /\ pc' = "ready"
                              /\ settings' = done.settings
                              /\ log' = done.log
    /\ roundTrip' = IF roundTrip.phase = "restarted"
                    THEN [roundTrip EXCEPT !.phase = "reloaded"]
                    ELSE roundTrip
    /\ UNCHANGED <<nonCfgVars, fileVars, debian_username, DEFAULT_USER, DEFAULT_PORT,
                   DEFAULT_HOME, lastCall>>

-----------------------------------------------------------------------------
(* The command builders and the blocking executor.                         *)

RECURSIVE concat(_)
\* ''.join(units)
concat(units) == IF units = <<>> THEN "" ELSE Head(units) \o concat(Tail(units))

\* '--port={}'.format(port) for an integer port
port_option(port) == PyStr("--port=" \o concat(format_int(port.int)))

\* get_command(kalite_command) for a command of one word
get_command(kalite_command) == <<settings["command"]>> \o <<PyStr(kalite_command)>>

\* find_executable('pkexec') finds it in the systems modelled
HasPkexec == TRUE

\* shlex.split(SU_COMMAND.format(username=...)): lines 42-47
su_command(username) ==
    IF HasPkexec THEN <<PyStr("pkexec"), PyStr("--user"), username>>
    ELSE <<PyStr("gksudo"), PyStr("-u"), username>>

\* shlex.split(SUDO_COMMAND)
sudo_command == IF HasPkexec THEN <<PyStr("pkexec")>> ELSE <<PyStr("gksudo")>>

\* conditional_sudo(cmd)
conditional_sudo(cmd) ==
    IF settings["user"] # PyStr(getuser) THEN su_command(settings["user"]) \o cmd
    ELSE cmd

\* sudo(cmd)
sudo(cmd) == sudo_command \o cmd

\* Popen(cmd): TypeError for an argument that is not a string
PopenRaises(cmd) == \E i \in 1..Len(cmd) : cmd[i] = None

CommandOps == {"start", "stop", "restart", "diagnose", "status"}

\* the argument vector each operation hands to the executor
ArgvOf(op) ==
    CASE op = "start" -> conditional_sudo(get_command("start") \o <<port_option(settings["port"])>>)
      [] op = "stop" -> conditional_sudo(get_command("stop"))
      [] op = "restart" -> conditional_sudo(get_command("restart") \o <<port_option(settings["port"])>>)
      [] op = "diagnose" -> get_command("diagnose")
      [] op = "status" -> get_command("status")

\* a call of the front-end: the command get_command built, the argument
\* vectors handed to Popen that started a process, the system files read,
\* the exception that ended it, the logger.error records it made
Call(op, built, spawned, read, raised, logged) ==
    [op |-> op, built |-> built, spawned |-> spawned, read |-> read,
     raised |-> raised, logged |-> logged]

\* start, stop, restart (to the first next() of the generator they return),
\* diagnose and status: the command is built and handed to Popen
RunCommand(op) ==
    /\ pc = "ready"
    /\ op \in CommandOps
    /\ LET cmd == ArgvOf(op)
       IN  lastCall' = IF PopenRaises(cmd)
                       THEN Call(op, get_command(op), <<>>, {}, "TypeError", <<>>)
                       ELSE Call(op, get_command(op), <<cmd>>, {}, "no", <<>>)
    /\ UNCHANGED <<nonCfgVars, fileVars, pc, debian_username, DEFAULT_USER,
                   DEFAULT_PORT, DEFAULT_HOME, settings, log, roundTrip>>

\* install(): update-rc.d through sudo
Install ==
    /\ pc = "ready"
    /\ lastCall' = Call("install", <<>>,
                        <<sudo(<<PyStr("bash"), PyStr("-c"),
                                 PyStr("update-rc.d ka-lite defaults")>>)>>, {}, "no", <<>>)
    /\ UNCHANGED <<nonCfgVars, fileVars, pc, debian_username, DEFAULT_USER,
                   DEFAULT_PORT, DEFAULT_HOME, settings, log, roundTrip>>

\* remove()
Remove ==
    /\ pc = "ready"
    /\ lastCall' = Call("remove", <<>>,
                        <<sudo(<<PyStr("update-rc.d"), PyStr("-f"), PyStr("ka-lite"),
                                 PyStr("remove")>>)>>, {}, "no", <<>>)
    /\ UNCHANGED <<nonCfgVars, fileVars, pc, debian_username, DEFAULT_USER,
                   DEFAULT_PORT, DEFAULT_HOME, settings, log, roundTrip>>

-----------------------------------------------------------------------------
(* The front-end assigns to the settings.                                  *)

\* what the front-end may store: another account, a name without an
\* account, another port, a port out of range, a key of its own
Assignable ==
    {<<"user", PyStr("kalite")>>, <<"user", PyStr("ghost")>>,
     <<"port", PyInt(7007)>>, <<"port", PyInt(0)>>,
     <<"extra", PyStr("x")>>}

Assign(k, v) ==
    /\ pc = "ready"
    /\ <<k, v>> \in Assignable
    /\ settings' = SetItem(settings, k, v)
    /\ roundTrip' = IF roundTrip.phase = "reloaded" THEN NoRoundTrip ELSE roundTrip
    /\ UNCHANGED <<nonCfgVars, fileVars, pc, debian_username, DEFAULT_USER,
                   DEFAULT_PORT, DEFAULT_HOME, log, lastCall>>

-----------------------------------------------------------------------------
(* save_settings and save_debian_settings.                                 *)

OptWhitespace == {" ", "\n"}

RECURSIVE sub_port(_, _)
\* re.sub(r'--port=\d+', repl, text)
sub_port(repl, text) ==
    IF text = <<>> THEN <<>>
    ELSE IF PortMatchEnd(text, 1) # 0
    THEN repl \o sub_port(repl, SubSeq(text, PortMatchEnd(text, 1) + 1, Len(text)))
    ELSE <<Head(text)>> \o sub_port(repl, Tail(text))

RECURSIVE strip(_)
\* text.strip()
strip(text) ==
    IF text = <<>> THEN text
    ELSE IF Head(text) \in OptWhitespace THEN strip(Tail(text))
    ELSE IF text[Len(text)] \in OptWhitespace THEN strip(SubSeq(text, 1, Len(text) - 1))
    ELSE text

\* the text save_debian_settings echoes into the options file: lines 310-318
new_server_options(text, port) ==
    LET opt == <<PORT, "=">> \o format_int(port.int)
        subbed == strip(sub_port(opt, text))
    IN  IF \E i \in 1..Len(subbed) : subbed[i] = PORT THEN subbed
        ELSE subbed \o <<" ">> \o opt

\* echo "text" > file
echo(text) == [units |-> text \o <<"\n">>]

\* line 296 with the comparison the other way round
skips_debian_inverted(user) == DEFAULT_USER = user

\* line 296: whether save_debian_settings leaves the system files alone
skips_debian(user) == DEFAULT_USER # user

\* what the escalated shell got done: authorisation refused or the first
\* command failed ("none"), the first of two commands alone ("first"), all
SudoOutcomes == {"none", "first", "all"}

SaveSettings(outcome) ==
    /\ pc = "ready"
    /\ outcome \in SudoOutcomes
    /\ settingsFile' = json_dump(settings)
    /\ roundTrip' = [phase |-> "saved", saved |-> settings]
    /\ LET portChanged == settings["port"] # DEFAULT_PORT
           homeChanged == settings["home"] # DEFAULT_HOME
           cmds == (IF portChanged THEN <<"options">> ELSE <<>>)
                       \o (IF homeChanged THEN <<"home">> ELSE <<>>)
           text(c) == IF c = "options"
                      THEN "echo \"" \o concat(new_server_options(optionsFile.units,
                                                                  settings["port"]))
                               \o "\" > /etc/ka-lite/server_options"
                      ELSE "echo \"" \o settings["home"].str \o "\" > /etc/ka-lite/home"
           bash_commands == IF cmds = <<>> THEN ""
                            ELSE IF Len(cmds) = 1 THEN text(cmds[1])
                            ELSE text(cmds[1]) \o " && " \o text(cmds[2])
           done == IF outcome = "all" THEN cmds
                   ELSE IF outcome = "first" /\ Len(cmds) = 2 THEN <<cmds[1]>>
                   ELSE <<>>
           did(c) == \E i \in 1..Len(done) : done[i] = c
           shell == sudo(<<PyStr("bash"), PyStr("-c"), PyStr(bash_commands)>>)
       IN  IF skips_debian(settings["user"])
           THEN /\ lastCall' = Call("save_settings", <<>>, <<>>, {}, "no", <<>>)
                /\ UNCHANGED <<optionsFile, homeFile>>
           ELSE IF portChanged /\ optionsFile = Absent
           THEN \* open(DEBIAN_OPTIONS_FILE, 'r') raises
                /\ lastCall' = Call("save_settings", <<>>, <<>>, {"options"}, "IOError",
                                    <<>>)
                /\ UNCHANGED <<optionsFile, homeFile>>
           ELSE /\ lastCall' = Call("save_settings", <<>>, <<shell>>,
                                    IF portChanged THEN {"options"} ELSE {}, "no",
                                    IF done = cmds THEN <<>>
                                    ELSE <<"Error writing debian config">>)
                /\ optionsFile' = IF did("options")
                                  THEN echo(new_server_options(optionsFile.units,
                                                               settings["port"]))
                                  ELSE optionsFile
                /\ homeFile' = IF did("home") THEN TextFile(<<settings["home"].str, "">>)
                               ELSE homeFile
    /\ UNCHANGED <<nonCfgVars, usernameFile, kalitePath, pc, debian_username,
                   DEFAULT_USER, DEFAULT_PORT, DEFAULT_HOME, settings, log>>

-----------------------------------------------------------------------------
(* The front-end is started again: the module is loaded anew, with the     *)
(* files as they now are.                                                  *)

FreshModule ==
    /\ pc = "start"
    /\ debian_username = None
    /\ DEFAULT_USER = None
    /\ DEFAULT_PORT = None
    /\ DEFAULT_HOME = None
    /\ settings = NoSettings
    /\ log = <<>>
    /\ lastCall = NoCall

Restart ==
    /\ pc \in {"ready", "crashed"}
    /\ pc' = "start"
    /\ debian_username' = None
    /\ DEFAULT_USER' = None
    /\ DEFAULT_PORT' = None
    /\ DEFAULT_HOME' = None
    /\ settings' = NoSettings
    /\ log' = <<>>
    /\ lastCall' = NoCall
    /\ roundTrip' = IF roundTrip.phase \in {"saved", "reloaded"}
                    THEN [roundTrip EXCEPT !.phase = "restarted"]
                    ELSE NoRoundTrip
    /\ UNCHANGED <<nonCfgVars, fileVars>>

-----------------------------------------------------------------------------
(* Specifications of the configuration layer.                              *)

Missing == [missing |-> TRUE]

\* the settings files that hold an object: each key is missing or holds one
\* of a few values, valid and not
FileChoices ==
    [user : {Missing, JString("me"), JString("kalite"), JString("ghost")},
     port : {Missing, JNumber(7007), JNumber(0)},
     command : {Missing, JString("/opt/kalite"), JString("")},
     home : {Missing, JString("/srv/kalite")},
     content_root : {Missing, JString("/srv/content")},
     extra : {Missing, JString("x")}]

ObjectOf(choice) ==
    JObject([k \in {x \in DOMAIN choice : choice[x] # Missing} |-> choice[k]])

SettingsFiles ==
    {Absent, Unparsable, JsonFile(JArray(<<>>))}
        \cup {JsonFile(ObjectOf(c)) : c \in FileChoices}

KalitePaths == {None, PyStr("/usr/bin/kalite")}

FewOptionsFiles ==
    {Absent, [units |-> <<PORT, "=", "7", "0", "0", "7", "\n">>]}

\* the module is about to be loaded, in any of the systems modelled: every
\* options text with no settings file, or every settings file with one of
\* a few options files
InitResolve ==
    /\ IdleStream
    /\ IdleUrl
    /\ usernameFile \in UsernameFiles
    /\ kalitePath \in KalitePaths
    /\ homeFile = Absent
    /\ \/ /\ settingsFile = Absent
          /\ optionsFile \in {[units |-> t] : t \in OptionsTexts}
       \/ /\ settingsFile \in SettingsFiles
          /\ optionsFile \in FewOptionsFiles
    /\ FreshModule
    /\ roundTrip = NoRoundTrip

NextResolve ==
    \/ StartModule
    \/ LoadDebian
    \/ BuildSettings
    \/ LoadUserSettings

SpecResolve == InitResolve /\ [][NextResolve]_vars

\* the front-end at work: a few systems, every operation
InitOps ==
    /\ IdleStream
    /\ IdleUrl
    /\ usernameFile \in {Absent, TextFile(<<"kalite", "">>), TextFile(<<"ghost", "">>)}
    /\ kalitePath \in KalitePaths
    /\ homeFile = Absent
    /\ optionsFile \in FewOptionsFiles
    /\ settingsFile \in {Absent,
                         JsonFile(JObject([k \in {"home"} |-> JString("/srv/kalite")])),
                         JsonFile(JObject([k \in {"user", "port"} |->
                                      IF k = "user" THEN JString("kalite")
                                      ELSE JNumber(7007)]))}
    /\ FreshModule
    /\ roundTrip = NoRoundTrip

NextOps ==
    \/ StartModule
    \/ LoadDebian
    \/ BuildSettings
    \/ LoadUserSettings
    \/ \E op \in CommandOps : RunCommand(op)
    \/ Install
    \/ Remove
    \/ \E kv \in Assignable : Assign(kv[1], kv[2])
    \/ \E outcome \in SudoOutcomes : SaveSettings(outcome)
    \/ Restart

SpecOps == InitOps /\ [][NextOps]_vars

-----------------------------------------------------------------------------
(* Claims about the configuration resolution *)

\* the module-level code has run to its end or to an uncaught exception
Loaded == pc \in {"ready", "crashed"}

\* the first line of the username file is the name of an account
SystemUsernameValid ==
    /\ usernameFile # Absent
    /\ usernameFile.lines[1] \in Accounts

IsObjectFile(file) == "json" \in DOMAIN file /\ "jobject" \in DOMAIN file.json

\* the members of the settings file, as Python values
FileMembers ==
    [k \in DOMAIN settingsFile.json.jobject |-> from_json(settingsFile.json.jobject[k])]

\* C2: if the first line of the system username file is a valid username U,
\* the module loads and settings['user'] is U, whether the settings file is
\* absent, unparsable, names another valid user or has no 'user' at all.
C2_SystemUsernameWins ==
    (/\ Loaded
     /\ SystemUsernameValid
     /\ settingsFile \in {Absent, Unparsable} \/ IsObjectFile(settingsFile))
        => /\ pc = "ready"
           /\ settings["user"] = PyStr(usernameFile.lines[1])

\* the value the layers below the settings file give a validated field
PriorLayer(k) ==
    CASE k = "user" -> DEFAULT_USER
      [] k = "port" -> DEFAULT_PORT
      [] k = "command" -> kalitePath

\* how often a record occurs in the log
Count(record) == Cardinality({i \in 1..Len(log) : log[i] = record})

\* C5: for every settings file that parses to an object, whichever of its
\* validated fields fail validation, the module loads; each failing field
\* keeps the value of the layer below and is logged exactly once, and every
\* other field of the file takes its validated or passed-through value
\* (the 'user' of the file aside, where a system username is established).
C5_BadFieldsDroppedOneByOne ==
    (Loaded /\ IsObjectFile(settingsFile))
        => /\ pc = "ready"
           /\ \A k \in DOMAIN FileMembers :
                  IF k = "user" /\ SystemUsernameValid THEN TRUE
                  ELSE IF validate(k, FileMembers[k]).ok
                  THEN /\ settings[k] = FileMembers[k]
                       /\ Count(ErrIllegal(k)) = 0
                  ELSE /\ settings[k] = PriorLayer(k)
                       /\ Count(ErrIllegal(k)) = 1

\* C9: the 'user' of the settings file is dropped only where the system
\* username file established a valid username; where that file is absent,
\* empty or names no account, a valid 'user' of the settings file becomes
\* settings['user'].
C9_FileUserKeptUnlessSystemUsername ==
    (/\ Loaded
     /\ ~SystemUsernameValid
     /\ IsObjectFile(settingsFile)
     /\ "user" \in DOMAIN FileMembers
     /\ validators_username(FileMembers["user"]).ok)
        => /\ pc = "ready"
           /\ settings["user"] = FileMembers["user"]

\* the whitespace-delimited tokens of the options text that read --port=P,
\* P a string of digits: the pairs <<from, to>>
PortTokens(text) ==
    {<<i, j>> \in (1..Len(text)) \X (1..Len(text)) :
        /\ i + 2 <= j
        /\ text[i] = PORT
        /\ text[i + 1] = "="
        /\ \A k \in (i + 2)..j : IsDigit(text[k])
        /\ (i = 1 \/ text[i - 1] \in OptWhitespace)
        /\ (j = Len(text) \/ text[j + 1] \in OptWhitespace)}

RECURSIVE Power10(_)
Power10(n) == IF n = 0 THEN 1 ELSE 10 * Power10(n - 1)

RECURSIVE Decimal(_)
\* the number a string of digits denotes, leading zeros and all
Decimal(ds) ==
    IF ds = <<>> THEN 0
    ELSE DigitValue(Head(ds)) * Power10(Len(ds) - 1) + Decimal(Tail(ds))

\* C6 (as claimed): if the options file holds a token --port=P and there is
\* no settings file, settings['port'] is P, whatever the username file.
C6_OptionsPortWhateverUsername ==
    (/\ pc = "ready"
     /\ settingsFile = Absent
     /\ optionsFile # Absent
     /\ PortTokens(optionsFile.units) # {})
        => \E t \in PortTokens(optionsFile.units) :
               settings["port"] = PyInt(Decimal(SubSeq(optionsFile.units, t[1] + 2, t[2])))

\* "--port=" and a digit stand at position i of the text
PortAt(text, i) ==
    /\ i + 2 <= Len(text)
    /\ text[i] = PORT
    /\ text[i + 1] = "="
    /\ IsDigit(text[i + 2])

\* C6 (amended): if the first line of the username file is a valid
\* username, there is no settings file and the options file holds
\* --port=P, then settings['port'] is the number P of the first such
\* occurrence in the file, P being all the digits that follow it.
C6_OptionsPortWhenUsernameValid ==
    (/\ pc = "ready"
     /\ settingsFile = Absent
     /\ optionsFile # Absent
     /\ SystemUsernameValid)
        => \A i, j \in 1..Len(optionsFile.units) :
               (/\ PortAt(optionsFile.units, i)
                /\ \A h \in 1..(i - 1) : ~PortAt(optionsFile.units, h)
                /\ j >= i + 2
                /\ \A k \in (i + 2)..j : IsDigit(optionsFile.units[k])
                /\ (j = Len(optionsFile.units) \/ ~IsDigit(optionsFile.units[j + 1])))
                   => settings["port"]
                          = PyInt(Decimal(SubSeq(optionsFile.units, i + 2, j)))

\* loaded with a valid username and an options file of two port options
C6_Witness ==
    /\ pc = "ready"
    /\ settingsFile = Absent
    /\ SystemUsernameValid
    /\ optionsFile # Absent
    /\ optionsFile.units = <<PORT, "=", "7", " ", PORT, "=", "0">>
    /\ settings["port"] = PyInt(7)

-----------------------------------------------------------------------------
(* Claims about the operations *)

\* C3: a save_settings while settings['user'] differs from DEFAULT_USER
\* starts no escalated process and neither reads nor rewrites a system
\* file; all it does is write the settings file.
C3_SaveForOtherUserLeavesSystemAlone ==
    [][((\E outcome \in SudoOutcomes : SaveSettings(outcome))
            /\ settings["user"] # DEFAULT_USER)
          => /\ lastCall'.spawned = <<>>
             /\ lastCall'.read = {}
             /\ lastCall'.raised = "no"
             /\ usernameFile' = usernameFile
             /\ optionsFile' = optionsFile
             /\ homeFile' = homeFile
             /\ settingsFile' = json_dump(settings)]_vars

\* save_settings has just returned for a user who is not the default one,
\* in a system whose default user comes from the username file
C3_Witness ==
    /\ pc = "ready"
    /\ lastCall.op = "save_settings"
    /\ DEFAULT_USER = PyStr("kalite")
    /\ settings["user"] # DEFAULT_USER
    /\ settings["port"] # DEFAULT_PORT
    /\ settingsFile = json_dump(settings)
    /\ lastCall.spawned = <<>>

\* C4: where the managed binary was not found, every operation that builds
\* a command fails with an error before any process is started, and no
\* argument vector is built around the absent value.
C4_AbsentCommandFailsExplicitly ==
    (/\ pc = "ready"
     /\ lastCall.op \in CommandOps
     /\ settings["command"] = None)
        => /\ lastCall.raised # "no"
           /\ lastCall.spawned = <<>>
           /\ lastCall.built = <<>>

\* C7 (as claimed): with no system convention files, whatever the settings
\* the front-end has arrived at, save_settings followed by a fresh load
\* gives the settings saved, key by key.
C7_RoundTrip ==
    (/\ pc = "ready"
     /\ roundTrip.phase = "reloaded"
     /\ usernameFile = Absent
     /\ optionsFile = Absent)
        => settings = roundTrip.saved

\* the saved value of a validated field is one the fresh load takes again:
\* its validator accepts it, or it is the absent command the PATH lookup
\* yields again
Reloadable(saved) ==
    /\ validators_username(saved["user"]).ok
    /\ validators_port(saved["port"]).ok
    /\ validators_command(saved["command"]).ok \/ saved["command"] = kalitePath

\* C7 (amended): with no system username or options file, save_settings
\* followed by a fresh load gives the settings saved, key by key (keys
\* without a validator included), provided the saved user and port pass
\* their validators and the saved command passes its validator or is the
\* absent value of a binary that is still not found.
C7_RoundTripOfValidSettings ==
    (/\ pc = "ready"
     /\ roundTrip.phase = "reloaded"
     /\ usernameFile = Absent
     /\ optionsFile = Absent
     /\ Reloadable(roundTrip.saved))
        => settings = roundTrip.saved

\* reloaded after a save of settings with another user, another port, a
\* home that is not that user's and a key without a validator
C7_Witness ==
    /\ pc = "ready"
    /\ roundTrip.phase = "reloaded"
    /\ usernameFile = Absent
    /\ optionsFile = Absent
    /\ Reloadable(roundTrip.saved)
    /\ roundTrip.saved["user"] = PyStr("kalite")
    /\ roundTrip.saved["port"] = PyInt(7007)
    /\ roundTrip.saved["home"] # PyStr("/home/kalite/.kalite")
    /\ "extra" \in DOMAIN roundTrip.saved
    /\ settings = roundTrip.saved

====
